---- MODULE Spec2Model ----
(***************************************************************************)
(* A model of checkb's Executor (src/checkb/executor.py) together with the *)
(* disposable client it drives (src/checkb/ext/disposable/vm.py).          *)
(*                                                                         *)
(* One behaviour is one Executor object: Init is the state right after     *)
(* Executor.__init__, the actions are the steps of Executor.execute and of *)
(* the methods it calls.  External collaborators (ansible-playbook, the    *)
(* testcloud library, the ResultsDB directive, the filesystem) answer      *)
(* nondeterministically with every outcome their interface allows.         *)
(***************************************************************************)
EXTENDS Integers, Sequences, FiniteSets, TLC

(***************************************************************************)
(* Bounds of the model.                                                    *)
(***************************************************************************)
MaxPlaybooks == 2      \* at most this many tests*.yml files in the taskdir
MaxRetries == 3        \* config.spawn_vm_retries ranges over 0..MaxRetries
MaxCalls == 2          \* direct calls of _create_playbook_vars on one Executor

(***************************************************************************)
(* Program constants.                                                      *)
(***************************************************************************)
DefaultSpawnVmRetries == 3

Playbooks == 1..MaxPlaybooks

RuntaskModes == {"local", "libvirt"}
Overrides == {"none", "local", "libvirt", "ssh"}
\* the development profile behaves like production in the Executor, which
\* only compares the profile with TESTING
Profiles == {"production", "testing"}
Machines == {"10.0.0.7", "10.0.0.8"}

(***************************************************************************)
(* Addresses.  None is Python's None; a VM address carries the number of   *)
(* the prepare attempt (within one _spawn_vm call) that assigned it.       *)
(***************************************************************************)
None == [kind |-> "None", id |-> "", n |-> 0]
Loopback == [kind |-> "ip", id |-> "127.0.0.1", n |-> 0]
MachineAddr(m) == [kind |-> "ip", id |-> m, n |-> 0]
VmAddr(n) == [kind |-> "ip", id |-> "vm", n |-> n]

(***************************************************************************)
(* Exceptions, named by the place that raises them.                        *)
(*   syntax, notgeneric : CheckbPlaybookError                              *)
(*   image              : CheckbImageError    (vm._prepare_image)          *)
(*   exists, remote     : CheckbRemoteError   (vm._check_existing_instance,*)
(*                                             vm.teardown)                *)
(*   minion             : CheckbMinionError   (_spawn_vm, retries used up) *)
(*   exec               : CheckbError         (_run_playbook, non-zero)    *)
(*   missing, directive : CheckbDirectiveError (_report_results)           *)
(*   interrupt          : CheckbInterruptError                             *)
(*   other              : any exception that is not a CheckbError          *)
(***************************************************************************)
CheckbErrors == {"syntax", "notgeneric", "image", "exists", "remote", "minion",
                 "exec", "missing", "directive", "interrupt", "noplaybooks"}
IsCheckbError(e) == e \in CheckbErrors
IsInterruptError(e) == e = "interrupt"

VARIABLES
    \* configuration and request (fixed for one Executor)
    runtask_mode,      \* config.runtask_mode
    spawn_vm_retries,  \* config.spawn_vm_retries
    profile,           \* config.profile
    override,          \* which of arg_data['local'/'libvirt'/'ssh'] is set
    machine,           \* arg_data['machine']
    no_destroy,        \* arg_data['no_destroy']
    nPlaybooks,        \* number of files matching tests*.yml in the taskdir
    \* Executor fields
    ipaddr,            \* self.ipaddr
    run_remotely,      \* self.run_remotely
    task_vm,           \* self.task_vm: None or a handle [ipaddr |-> ...]
    \* locals of execute
    pc,                \* position in execute / the method it is in
    idx,               \* index of test_playbook in test_playbooks
    failed,            \* the list `failed`
    playbook_vars,     \* None or [generic |-> BOOLEAN]
    local_ipaddr,      \* the local variable ipaddr of execute
    pending,           \* exception in flight ("none" if none)
    brk,               \* a break statement is pending behind the finally
    \* locals of _spawn_vm and the provisioner's script for this call
    retries,           \* the local variable retries
    plan,              \* [fails |-> n, last |-> "ok"/"image"]: the first n
                       \* attempts raise TestcloudInstanceError, then `last`
    attempts,          \* prepare calls made by the current _spawn_vm call
    \* locals of _run_playbook
    runRes,            \* how the try block of _run_playbook ended
    runnerCalls,       \* popen_rt invocations of the current _run_playbook
    invoked,           \* the commands of these invocations, in order
    failsafeRes,       \* how the failsafe invocation ended ("none" if none)
    handlersBefore,    \* the handlers installed when _run_playbook was called
    reporterCalls,     \* ResultsdbDirective.process calls for this playbook
    \* the world
    instExists,        \* testcloud has an instance named checkb-<uuid>
    sigint, sigterm,   \* installed handlers
    secretsFile,       \* the secrets file of the current playbook exists
    resultsFile,       \* results.yml of the current playbook exists
    \* observations
    result,            \* "none", "True", "False" or "raised"
    ended,             \* per playbook: how its try block ended
    syntaxChecked,     \* playbooks handed to _check_playbook_syntax
    varsComputed,      \* playbooks handed to _create_playbook_vars
    spawned,           \* playbooks for which _spawn_vm was entered
    ran,               \* playbooks handed to _run_playbook
    reported,          \* playbooks handed to ResultsdbDirective.process
    sentinel,          \* playbooks with results.yml.reported_ok
    prepareCalls,      \* prepare calls over the whole execute
    teardownCalls,     \* teardown calls over the whole execute
    removeCalls,       \* os.remove calls for the current playbook
    \* direct calls of _create_playbook_vars (outside execute)
    calls,             \* one record per call: its inputs and what it returned
    tmpFiles           \* the secrets files that mkstemp has created

cfgVars == <<runtask_mode, spawn_vm_retries, profile, override, machine,
             no_destroy, nPlaybooks>>
selfVars == <<ipaddr, run_remotely, task_vm>>
execVars == <<pc, idx, failed, playbook_vars, local_ipaddr, pending, brk>>
spawnVars == <<retries, plan, attempts>>
runVars == <<runRes, runnerCalls, invoked, failsafeRes, handlersBefore,
             reporterCalls>>
worldVars == <<instExists, sigint, sigterm, secretsFile, resultsFile>>
obsVars == <<result, ended, syntaxChecked, varsComputed, spawned, ran,
             reported, sentinel, prepareCalls, teardownCalls, removeCalls>>
callVars == <<calls, tmpFiles>>
vars == <<cfgVars, selfVars, execVars, spawnVars, runVars, worldVars, obsVars,
          callVars>>

\* a resolution in which --local does not override the configured mode
GetClientIpaddr_LocalIgnored(mode, ovr, mach) ==
    LET remote == IF ovr \in {"libvirt", "ssh"} THEN TRUE ELSE mode = "libvirt"
    IN [run_remotely |-> remote,
        ipaddr |-> IF remote
                   THEN (IF ovr = "ssh" THEN MachineAddr(mach) ELSE None)
                   ELSE Loopback]

(***************************************************************************)
(* Executor._get_client_ipaddr: the pair (run_remotely, ipaddr).           *)
(***************************************************************************)
GetClientIpaddr(mode, ovr, mach) ==
    LET byConfig == (mode = "libvirt")
        remote == IF ovr = "local" THEN FALSE
                  ELSE IF ovr = "libvirt" THEN TRUE
                  ELSE IF ovr = "ssh" THEN TRUE
                  ELSE byConfig
        persistent == (ovr = "ssh")
    IN [run_remotely |-> remote,
        ipaddr |-> IF remote
                   THEN (IF persistent THEN MachineAddr(mach) ELSE None)
                   ELSE Loopback]

NoPlan == [fails |-> 0, last |-> "none"]

(***************************************************************************)
(* Signal handlers.  A Python process starts with default_int_handler for  *)
(* SIGINT and SIG_DFL for SIGTERM; the code embedding the Executor may     *)
(* have installed handlers of its own, or reset both to SIG_DFL.           *)
(***************************************************************************)
InterpreterHandlers == [sigint |-> "default_int_handler", sigterm |-> "SIG_DFL"]
StartHandlers == {InterpreterHandlers,
                  [sigint |-> "SIG_DFL", sigterm |-> "SIG_DFL"],
                  [sigint |-> "custom", sigterm |-> "custom"]}
NoHandlers == [sigint |-> "none", sigterm |-> "none"]

(***************************************************************************)
(* Executor.__init__ has run; execute has not been called yet.             *)
(***************************************************************************)
Init ==
    /\ runtask_mode \in RuntaskModes
    /\ spawn_vm_retries \in 0..MaxRetries
    /\ profile \in Profiles
    /\ override \in Overrides
    /\ machine \in (IF override = "ssh" THEN Machines ELSE {""})
    /\ no_destroy \in BOOLEAN
    /\ nPlaybooks \in 0..MaxPlaybooks
    /\ run_remotely = GetClientIpaddr(runtask_mode, override, machine).run_remotely
    /\ ipaddr = GetClientIpaddr(runtask_mode, override, machine).ipaddr
    /\ task_vm = None
    /\ pc = "start"
    /\ idx = 0
    /\ failed = <<>>
    /\ playbook_vars = None
    /\ local_ipaddr = None
    /\ pending = "none"
    /\ brk = FALSE
    /\ retries = 0
    /\ plan = NoPlan
    /\ attempts = 0
    /\ runRes = "none"
    /\ runnerCalls = 0
    /\ invoked = <<>>
    /\ failsafeRes = "none"
    /\ instExists = FALSE
    /\ \E h \in StartHandlers : sigint = h.sigint /\ sigterm = h.sigterm
    /\ handlersBefore = NoHandlers
    /\ reporterCalls = 0
    /\ secretsFile = FALSE
    /\ resultsFile = FALSE
    /\ result = "none"
    /\ ended = [p \in Playbooks |-> "none"]
    /\ syntaxChecked = {}
    /\ varsComputed = {}
    /\ spawned = {}
    /\ ran = {}
    /\ reported = {}
    /\ sentinel = {}
    /\ prepareCalls = 0
    /\ teardownCalls = 0
    /\ removeCalls = 0
    /\ calls = <<>>
    /\ tmpFiles = {}

(***************************************************************************)
(* An exception raised inside the try block of execute's loop body: it is  *)
(* in flight until the except clauses and the finally clause have run.     *)
(***************************************************************************)
RaiseInTry(e) ==
    /\ pending' = e
    /\ ended' = [ended EXCEPT ![idx] = e]
    /\ pc' = "except"

(***************************************************************************)
(* execute, lines 494-500: list the playbooks, raise if there is none.     *)
(***************************************************************************)
\* an emptiness test that never fires
NoPlaybooks_Never == FALSE

NoPlaybooks == nPlaybooks = 0

ExecuteStart ==
    /\ pc = "start"
    /\ IF NoPlaybooks
       THEN /\ pc' = "raised"
            /\ result' = "raised"
            /\ pending' = "noplaybooks"
            /\ UNCHANGED <<idx, failed>>
       ELSE /\ pc' = "loop"
            /\ idx' = 1
            /\ failed' = <<>>
            /\ UNCHANGED <<result, pending>>
    /\ UNCHANGED <<callVars, cfgVars, selfVars, playbook_vars, local_ipaddr, brk,
                   spawnVars, runVars, worldVars, ended, syntaxChecked,
                   varsComputed, spawned, ran, reported, sentinel,
                   prepareCalls, teardownCalls, removeCalls>>

(***************************************************************************)
(* The for statement (line 501) and the first statement of its body (502). *)
(* The per-call and per-playbook bookkeeping of the model starts afresh.   *)
(***************************************************************************)
LoopNext ==
    /\ pc = "loop"
    /\ IF idx <= nPlaybooks
       THEN /\ playbook_vars' = None
            /\ pc' = "syntax"
       ELSE /\ pc' = "after_loop"
            /\ UNCHANGED playbook_vars
    /\ plan' = NoPlan
    /\ attempts' = 0
    /\ retries' = 0
    /\ runRes' = "none"
    /\ runnerCalls' = 0
    /\ invoked' = <<>>
    /\ failsafeRes' = "none"
    /\ handlersBefore' = NoHandlers
    /\ reporterCalls' = 0
    /\ removeCalls' = 0
    /\ secretsFile' = FALSE
    /\ resultsFile' = FALSE
    /\ UNCHANGED <<callVars, cfgVars, selfVars, idx, failed, local_ipaddr, pending, brk,
                   instExists, sigint, sigterm, result, ended, syntaxChecked,
                   varsComputed, spawned, ran, reported, sentinel,
                   prepareCalls, teardownCalls>>

(***************************************************************************)
(* _check_playbook_syntax (lines 153-167, called at 505): ansible-playbook *)
(* --syntax-check passes, or exits non-zero (CheckbPlaybookError).         *)
(***************************************************************************)
CheckPlaybookSyntax ==
    /\ pc = "syntax"
    /\ syntaxChecked' = syntaxChecked \cup {idx}
    /\ \/ /\ pc' = "vars"
          /\ UNCHANGED <<pending, ended>>
       \/ RaiseInTry("syntax")
    /\ UNCHANGED <<callVars, cfgVars, selfVars, idx, failed, playbook_vars, local_ipaddr,
                   brk, spawnVars, runVars, worldVars, result, varsComputed,
                   spawned, ran, reported, sentinel, prepareCalls,
                   teardownCalls, removeCalls>>

(***************************************************************************)
(* _create_playbook_vars (lines 298-338, called at 509).  The playbook     *)
(* declares checkb_generic_task truthy or not; _get_vault_secrets writes   *)
(* the secrets file unless the profile is the testing one (227-234).       *)
(* Loading the playbook can fail with an exception that is no CheckbError  *)
(* (unreadable file, no 'vars' mapping): the assignment then never happens.*)
(* So can a step after _get_vault_secrets (line 331), which leaves the     *)
(* secrets file behind.                                                    *)
(***************************************************************************)
CreatePlaybookVars ==
    /\ pc = "vars"
    /\ varsComputed' = varsComputed \cup {idx}
    /\ \/ /\ \E g \in BOOLEAN : playbook_vars' = [generic |-> g]
          /\ secretsFile' = (profile # "testing")
          /\ pc' = "generic"
          /\ UNCHANGED <<pending, ended>>
       \/ /\ RaiseInTry("other")
          /\ secretsFile' \in {FALSE, profile # "testing"}
          /\ UNCHANGED playbook_vars
    /\ UNCHANGED <<callVars, cfgVars, selfVars, idx, failed, local_ipaddr, brk,
                   spawnVars, runVars, instExists, sigint, sigterm,
                   resultsFile, result, syntaxChecked, spawned, ran, reported,
                   sentinel, prepareCalls, teardownCalls, removeCalls>>

(***************************************************************************)
(* execute, lines 511-514: refuse playbooks not marked as generic tasks.   *)
(***************************************************************************)
CheckGenericTask ==
    /\ pc = "generic"
    /\ IF ~playbook_vars.generic
       THEN RaiseInTry("notgeneric")
       ELSE /\ pc' = "resolve"
            /\ UNCHANGED <<pending, ended>>
    /\ UNCHANGED <<callVars, cfgVars, selfVars, idx, failed, playbook_vars, local_ipaddr,
                   brk, spawnVars, runVars, worldVars, result, syntaxChecked,
                   varsComputed, spawned, ran, reported, sentinel,
                   prepareCalls, teardownCalls, removeCalls>>

(***************************************************************************)
(* execute, lines 517-520: take self.ipaddr; spawn a VM if it is None.     *)
(***************************************************************************)
\* a test that provisions for every remote target
NeedsVm_WhenRemote(addr) == addr # Loopback

NeedsVm(addr) == addr = None

ResolveAddress ==
    /\ pc = "resolve"
    /\ local_ipaddr' = ipaddr
    /\ pc' = IF NeedsVm(ipaddr) THEN "spawn_vm" ELSE "run_playbook"
    /\ UNCHANGED <<callVars, cfgVars, selfVars, idx, failed, playbook_vars, pending, brk,
                   spawnVars, runVars, worldVars, obsVars>>

(***************************************************************************)
(* _spawn_vm, lines 83-88: a fresh handle replaces self.task_vm and the    *)
(* retry budget is read from the configuration.  The provisioner's script  *)
(* for this call is fixed here: how many attempts fail with                *)
(* TestcloudInstanceError before one ends otherwise.                       *)
(***************************************************************************)
Plans == {[fails |-> f, last |-> l] :
              f \in 0..(spawn_vm_retries - 1), l \in {"ok", "image"}}
         \cup {[fails |-> spawn_vm_retries, last |-> "none"]}

SpawnVmEnter ==
    /\ pc = "spawn_vm"
    /\ task_vm' = [ipaddr |-> None]
    /\ retries' = spawn_vm_retries
    /\ plan' \in Plans
    /\ attempts' = 0
    /\ spawned' = spawned \cup {idx}
    /\ pc' = "spawn_loop"
    /\ UNCHANGED <<callVars, cfgVars, ipaddr, run_remotely, idx, failed, playbook_vars,
                   local_ipaddr, pending, brk, runVars, worldVars, result,
                   ended, syntaxChecked, varsComputed, ran, reported,
                   sentinel, prepareCalls, teardownCalls, removeCalls>>

(***************************************************************************)
(* _spawn_vm, lines 90-91: the while test and the decrement.  When the     *)
(* test fails the function falls off its end and returns None.             *)
(***************************************************************************)
\* a loop test that lets an attempt start without budget
RetriesLeft_Always(r) == TRUE

\* a loop that makes the first attempt only
RetriesLeft_FirstOnly(r) == r > 0 /\ r = spawn_vm_retries

RetriesLeft(r) == r > 0

SpawnVmLoop ==
    /\ pc = "spawn_loop"
    /\ IF RetriesLeft(retries)
       THEN /\ retries' = retries - 1
            /\ pc' = "prepare"
            /\ UNCHANGED local_ipaddr
       ELSE /\ local_ipaddr' = None
            /\ pc' = "run_playbook"
            /\ UNCHANGED retries
    /\ UNCHANGED <<callVars, cfgVars, selfVars, idx, failed, playbook_vars, pending, brk,
                   plan, attempts, runVars, worldVars, obsVars>>

(***************************************************************************)
(* TestCloudMachine.prepare (vm.py 123-138), called at line 93.            *)
(*   _prepare_image may raise CheckbImageError;                            *)
(*   _check_existing_instance raises CheckbRemoteError if the instance is  *)
(*     already defined;                                                    *)
(*   _prepare_instance may raise TestcloudInstanceError, before or after   *)
(*     testcloud has defined the instance;                                 *)
(*   otherwise the handle gets the address of the new instance.            *)
(***************************************************************************)
VmPrepare ==
    /\ pc = "prepare"
    /\ attempts' = attempts + 1
    /\ prepareCalls' = prepareCalls + 1
    /\ LET n == attempts + 1 IN
       IF n = plan.fails + 1 /\ plan.last = "image"
       THEN /\ RaiseInTry("image")
            /\ UNCHANGED <<task_vm, instExists>>
       ELSE IF instExists
       THEN /\ RaiseInTry("exists")
            /\ UNCHANGED <<task_vm, instExists>>
       ELSE \/ /\ n <= plan.fails
               /\ instExists' \in BOOLEAN
               /\ pc' = "spawn_except"
               /\ UNCHANGED <<task_vm, pending, ended>>
            \/ /\ instExists' = TRUE
               /\ task_vm' = [ipaddr |-> VmAddr(n)]
               /\ pc' = "wait_for_port"
               /\ UNCHANGED <<pending, ended>>
    /\ UNCHANGED <<callVars, cfgVars, ipaddr, run_remotely, idx, failed, playbook_vars,
                   local_ipaddr, brk, retries, plan, runVars, sigint, sigterm,
                   secretsFile, resultsFile, result, syntaxChecked,
                   varsComputed, spawned, ran, reported, sentinel,
                   teardownCalls, removeCalls>>

(***************************************************************************)
(* TestCloudMachine.wait_for_port (vm.py 140-162), called at line 94, and  *)
(* the return at line 100.  A timeout raises TestcloudInstanceError.       *)
(***************************************************************************)
WaitForPort ==
    /\ pc = "wait_for_port"
    /\ IF attempts <= plan.fails
       THEN /\ pc' = "spawn_except"
            /\ UNCHANGED local_ipaddr
       ELSE /\ local_ipaddr' = task_vm.ipaddr
            /\ pc' = "run_playbook"
    /\ UNCHANGED <<callVars, cfgVars, selfVars, idx, failed, playbook_vars, pending, brk,
                   spawnVars, runVars, worldVars, obsVars>>

(***************************************************************************)
(* TestCloudMachine.teardown (vm.py 164-175): raises CheckbRemoteError if  *)
(* the instance does not exist or cannot be removed.  TeardownDone is the  *)
(* normal return, TeardownRaises the raising one.                          *)
(***************************************************************************)
\* a teardown that returns without having removed the instance
TeardownDone_InstanceLeft ==
    /\ instExists
    /\ UNCHANGED instExists

TeardownDone ==
    /\ instExists
    /\ instExists' = FALSE

TeardownRaises ==
    /\ UNCHANGED instExists

(***************************************************************************)
(* _spawn_vm, lines 101-108: TestcloudInstanceError was raised by prepare  *)
(* or wait_for_port.                                                       *)
(***************************************************************************)
\* a test that gives up while one retry is left
Exhausted_OneEarly(r) == r <= 1

Exhausted(r) == r <= 0

SpawnVmExcept ==
    /\ pc = "spawn_except"
    /\ IF Exhausted(retries)
       THEN /\ RaiseInTry("minion")
            /\ UNCHANGED <<instExists, teardownCalls>>
       ELSE /\ teardownCalls' = teardownCalls + 1
            /\ \/ /\ TeardownDone
                  /\ pc' = "spawn_loop"
                  /\ UNCHANGED <<pending, ended>>
               \/ /\ TeardownRaises
                  /\ RaiseInTry("remote")
    /\ UNCHANGED <<callVars, cfgVars, selfVars, idx, failed, playbook_vars, local_ipaddr,
                   brk, spawnVars, runVars, sigint, sigterm, secretsFile,
                   resultsFile, result, syntaxChecked, varsComputed, spawned,
                   ran, reported, sentinel, prepareCalls, removeCalls>>

(***************************************************************************)
(* _run_playbook, lines 392-422: dump the variables (file I/O that may     *)
(* fail with an exception that is no CheckbError), build the command,      *)
(* enter the try block and install the interrupt handler.                  *)
(***************************************************************************)
RunPlaybookEnter ==
    /\ pc = "run_playbook"
    /\ ran' = ran \cup {idx}
    /\ handlersBefore' = [sigint |-> sigint, sigterm |-> sigterm]
    /\ \/ /\ sigint' = "handler"
          /\ sigterm' = "handler"
          /\ pc' = "runner"
          /\ UNCHANGED <<pending, ended>>
       \/ /\ RaiseInTry("other")
          /\ UNCHANGED <<sigint, sigterm>>
    /\ UNCHANGED <<callVars, cfgVars, selfVars, idx, failed, playbook_vars, local_ipaddr,
                   brk, spawnVars, runRes, runnerCalls, invoked, failsafeRes,
                   reporterCalls, instExists, secretsFile, resultsFile, result,
                   syntaxChecked, varsComputed, spawned, reported, sentinel,
                   prepareCalls, teardownCalls, removeCalls>>

(***************************************************************************)
(* _run_playbook, lines 424-433: os_utils.popen_rt runs ansible-playbook.  *)
(* It returns, raises CalledProcessError (re-raised as CheckbError), or a  *)
(* signal arrives and the handler raises CheckbInterruptError.  A playbook *)
(* that ran to its end may or may not have written results.yml.            *)
(***************************************************************************)
\* the ansible-playbook command of lines 397-415, as far as it is decided
\* by the Executor: the inventory, the connection and the tags
Cmd == [inventory |-> local_ipaddr,
        connection |-> IF run_remotely THEN "remote" ELSE "local",
        tags |-> "none"]

Runner ==
    /\ pc = "runner"
    /\ runnerCalls' = runnerCalls + 1
    /\ invoked' = Append(invoked, Cmd)
    /\ \/ /\ runRes' = "return"
          /\ resultsFile' \in BOOLEAN
          /\ pc' = "run_finally"
       \/ /\ runRes' = "exec"
          /\ pc' = "run_finally"
          /\ UNCHANGED resultsFile
       \/ /\ sigint = "handler" \/ sigterm = "handler"
          /\ runRes' = "interrupt"
          /\ pc' = "failsafe"
          /\ UNCHANGED resultsFile
    /\ UNCHANGED <<callVars, cfgVars, selfVars, idx, failed, playbook_vars, local_ipaddr,
                   pending, brk, spawnVars, failsafeRes, handlersBefore,
                   reporterCalls, instExists, sigint, sigterm, secretsFile, obsVars>>

(***************************************************************************)
(* _run_playbook, lines 434-442: one more popen_rt with --tags failsafe;   *)
(* CalledProcessError and CheckbInterruptError are logged and dropped,     *)
(* then the original interrupt is raised.                                  *)
(***************************************************************************)
CmdFailsafe == [Cmd EXCEPT !.tags = "failsafe"]

Failsafe ==
    /\ pc = "failsafe"
    /\ runnerCalls' = runnerCalls + 1
    /\ invoked' = Append(invoked, CmdFailsafe)
    /\ failsafeRes' \in {"return", "exec", "interrupt"}
    /\ pc' = "run_finally"
    /\ UNCHANGED <<callVars, cfgVars, selfVars, idx, failed, playbook_vars, local_ipaddr,
                   pending, brk, spawnVars, runRes, handlersBefore,
                   reporterCalls, worldVars, obsVars>>

(***************************************************************************)
(* _run_playbook, lines 443-446: the finally clause resets both handlers   *)
(* to SIG_DFL; then the function returns or its exception propagates.      *)
(* After the failsafe pass the exception is the one of line 442, raise e.  *)
(***************************************************************************)
\* the failsafe's own error takes the place of the interrupt
RaisedAfterFailsafe_Last(e, e2) == IF e2 = "return" THEN e ELSE e2

RaisedAfterFailsafe(e, e2) == e

\* the CalledProcessError of popen_rt leaves _run_playbook as it is
WrapCalledProcessError_Unwrapped == "other"

\* lines 426-430: CalledProcessError is re-raised as CheckbError
WrapCalledProcessError == "exec"

\* a finally clause that leaves the Executor's handler in place
ResetHandler_Leaked == "handler"

ResetHandler == "SIG_DFL"

RunFinally ==
    /\ pc = "run_finally"
    /\ sigint' = ResetHandler
    /\ sigterm' = ResetHandler
    /\ IF runRes = "return"
       THEN /\ pc' = "report"
            /\ UNCHANGED <<pending, ended>>
       ELSE IF runRes = "interrupt"
       THEN RaiseInTry(RaisedAfterFailsafe(runRes, failsafeRes))
       ELSE RaiseInTry(WrapCalledProcessError)
    /\ UNCHANGED <<callVars, cfgVars, selfVars, idx, failed, playbook_vars, local_ipaddr,
                   brk, spawnVars, runVars, instExists, secretsFile,
                   resultsFile, result, syntaxChecked, varsComputed, spawned,
                   ran, reported, sentinel, prepareCalls, teardownCalls,
                   removeCalls>>

(***************************************************************************)
(* _report_results, lines 459-484 (called at 528): raise if results.yml is *)
(* missing, else let ResultsdbDirective process it and touch the           *)
(* reported_ok file.  process may raise CheckbDirectiveError or an         *)
(* exception that is no CheckbError.  A normal return ends the try block.  *)
(***************************************************************************)
\* an existence test that never finds the file missing
ResultsMissing_Never == FALSE

ResultsMissing == ~resultsFile

ReportResults ==
    /\ pc = "report"
    /\ IF ResultsMissing
       THEN /\ RaiseInTry("missing")
            /\ UNCHANGED <<reported, sentinel, reporterCalls>>
       ELSE /\ reported' = reported \cup {idx}
            /\ reporterCalls' = reporterCalls + 1
            /\ \/ /\ sentinel' = sentinel \cup {idx}
                  /\ ended' = [ended EXCEPT ![idx] = "ok"]
                  /\ pc' = "finally_secrets"
                  /\ UNCHANGED pending
               \/ /\ \E e \in {"directive", "other"} : RaiseInTry(e)
                  /\ UNCHANGED sentinel
    /\ UNCHANGED <<callVars, cfgVars, selfVars, idx, failed, playbook_vars, local_ipaddr,
                   brk, spawnVars, runRes, runnerCalls, invoked, failsafeRes,
                   handlersBefore, worldVars, result, syntaxChecked,
                   varsComputed, spawned, ran, prepareCalls, teardownCalls,
                   removeCalls>>

(***************************************************************************)
(* execute, lines 529-538: the except clauses.  An interrupt is recorded   *)
(* and breaks out of the loop, any other CheckbError is recorded, anything *)
(* else stays in flight.  The finally clause runs next in every case.      *)
(***************************************************************************)
Except ==
    /\ pc = "except"
    /\ IF IsInterruptError(pending)
       THEN /\ failed' = Append(failed, idx)
            /\ brk' = TRUE
            /\ pending' = "none"
       ELSE IF IsCheckbError(pending)
       THEN /\ failed' = Append(failed, idx)
            /\ pending' = "none"
            /\ UNCHANGED brk
       ELSE UNCHANGED <<failed, brk, pending>>
    /\ pc' = "finally_secrets"
    /\ UNCHANGED <<callVars, cfgVars, selfVars, idx, playbook_vars, local_ipaddr,
                   spawnVars, runVars, worldVars, obsVars>>

(***************************************************************************)
(* execute, lines 540-545: delete the secrets file; OSError is logged.     *)
(***************************************************************************)
\* a cleanup that forgets the testing profile
DeletesSecrets_AnyProfile == playbook_vars # None

DeletesSecrets == playbook_vars # None /\ profile # "testing"

FinallySecrets ==
    /\ pc = "finally_secrets"
    /\ IF DeletesSecrets
       THEN /\ removeCalls' = removeCalls + 1
            /\ \/ /\ secretsFile
                  /\ secretsFile' = FALSE
               \/ UNCHANGED secretsFile
       ELSE UNCHANGED <<removeCalls, secretsFile>>
    /\ pc' = "finally_vm"
    /\ UNCHANGED <<callVars, cfgVars, selfVars, idx, failed, playbook_vars, local_ipaddr,
                   pending, brk, spawnVars, runVars, instExists, sigint,
                   sigterm, resultsFile, result, ended, syntaxChecked,
                   varsComputed, spawned, ran, reported, sentinel,
                   prepareCalls, teardownCalls>>

(***************************************************************************)
(* execute, lines 546-554 and the way out of the finally clause.  A break  *)
(* inside finally discards an exception in flight; an exception raised by  *)
(* teardown leaves execute; otherwise an exception in flight is re-raised, *)
(* a pending break is taken, or the loop goes on.                          *)
(***************************************************************************)
\* a test that counts a handle only once its VM has got an address
HoldsVm_OnlyBooted == task_vm # None /\ task_vm.ipaddr # None

HoldsVm == task_vm # None

\* a cleanup that ignores the request to keep the VM
KeepsVm_Never == FALSE

KeepsVm == HoldsVm /\ no_destroy

FinallyVm ==
    /\ pc = "finally_vm"
    /\ IF KeepsVm
       THEN /\ pending' = "none"
            /\ pc' = "after_loop"
            /\ UNCHANGED <<idx, result, instExists, teardownCalls>>
       ELSE /\ teardownCalls' = IF HoldsVm THEN teardownCalls + 1
                                ELSE teardownCalls
            /\ \/ /\ HoldsVm
                  /\ TeardownRaises
                  /\ pending' = "remote"
                  /\ result' = "raised"
                  /\ pc' = "raised"
                  /\ UNCHANGED idx
               \/ /\ IF HoldsVm THEN TeardownDone ELSE UNCHANGED instExists
                  /\ IF pending # "none"
                     THEN /\ result' = "raised"
                          /\ pc' = "raised"
                          /\ UNCHANGED idx
                     ELSE IF brk
                     THEN /\ pc' = "after_loop"
                          /\ UNCHANGED <<idx, result>>
                     ELSE /\ idx' = idx + 1
                          /\ pc' = "loop"
                          /\ UNCHANGED result
                  /\ UNCHANGED pending
    /\ UNCHANGED <<callVars, cfgVars, selfVars, failed, playbook_vars, local_ipaddr, brk,
                   spawnVars, runVars, sigint, sigterm, secretsFile,
                   resultsFile, ended, syntaxChecked, varsComputed, spawned,
                   ran, reported, sentinel, prepareCalls, removeCalls>>

(***************************************************************************)
(* execute, lines 556-562: return not failed.                              *)
(***************************************************************************)
ReturnValue(f) == IF f = <<>> THEN "True" ELSE "False"

AfterLoop ==
    /\ pc = "after_loop"
    /\ result' = ReturnValue(failed)
    /\ pc' = "done"
    /\ UNCHANGED <<callVars, cfgVars, selfVars, idx, failed, playbook_vars, local_ipaddr,
                   pending, brk, spawnVars, runVars, worldVars, ended,
                   syntaxChecked, varsComputed, spawned, ran, reported,
                   sentinel, prepareCalls, teardownCalls, removeCalls>>

Next ==
    \/ ExecuteStart
    \/ LoopNext
    \/ CheckPlaybookSyntax
    \/ CreatePlaybookVars
    \/ CheckGenericTask
    \/ ResolveAddress
    \/ SpawnVmEnter
    \/ SpawnVmLoop
    \/ VmPrepare
    \/ WaitForPort
    \/ SpawnVmExcept
    \/ RunPlaybookEnter
    \/ Runner
    \/ Failsafe
    \/ RunFinally
    \/ ReportResults
    \/ Except
    \/ FinallySecrets
    \/ FinallyVm
    \/ AfterLoop

Spec == Init /\ [][Next]_vars

(***************************************************************************)
(* execute is one sequential thread: each action is a statement of it or a *)
(* call of a collaborator.  When every such call returns or raises, the    *)
(* step that is enabled is eventually taken.                               *)
(* Which handlers the process started with, which profile is configured   *)
(* and which machine --ssh names decide no branch that can repeat a step,  *)
(* so the runs start from one choice of each; the configured mode is the   *)
(* disposable one, the other modes being requested on the command line.    *)
(***************************************************************************)
InitLive ==
    /\ Init
    /\ runtask_mode = "libvirt"
    /\ override # "libvirt"
    /\ sigint = InterpreterHandlers.sigint
    /\ sigterm = InterpreterHandlers.sigterm
    /\ profile = "production"
    /\ override = "ssh" => machine = "10.0.0.7"

SpecLive == InitLive /\ [][Next]_vars /\ WF_vars(Next)

(***************************************************************************)
(* Playbook variables as _create_playbook_vars computes them.  A variable  *)
(* mapping is a function from names to values; a value is a literal, a     *)
(* path below a directory, or the name of a file made by tempfile.mkstemp. *)
(***************************************************************************)
Lit(s) == [kind |-> "lit", v |-> s, n |-> 0]
PathIn(dir, pb) == [kind |-> "path", v |-> dir, n |-> pb]
TmpFile(n) == [kind |-> "tmpfile", v |-> "checkb_secrets", n |-> n]
TmpNames == 1..MaxCalls

\* dict.update: the entries of b replace those of a
Update(a, b) ==
    [k \in (DOMAIN a) \cup (DOMAIN b) |-> IF k \in DOMAIN b THEN b[k] ELSE a[k]]

ACCEPTED_VARS == {"checkb_generic_task", "checkb_keepalive_minutes",
                  "checkb_match_host_arch", "checkb_match_host_distro",
                  "checkb_match_host_release"}

\* a filter that lets every declared variable through
IsAccepted_Any(var) == TRUE

IsAccepted(var) == var \in ACCEPTED_VARS

(***************************************************************************)
(* _load_playbook_vars (lines 169-187): the entries of the first play's    *)
(* vars whose name is accepted.                                            *)
(***************************************************************************)
LoadPlaybookVars(declared) ==
    [var \in {k \in DOMAIN declared : IsAccepted(k)} |-> declared[var]]

\* _create_playbook_vars, lines 302-312
DefaultVars ==
    [become_root |-> Lit("True"),
     checkb_generic_task |-> Lit("False"),
     heartbeat_interval |-> Lit("120"),
     checkb_keepalive_minutes |-> Lit("0"),
     checkb_match_host_arch |-> Lit("False"),
     checkb_match_host_distro |-> Lit("False"),
     checkb_match_host_release |-> Lit("False"),
     varsfile |-> Lit("task_vars.json"),
     ansible_python_interpreter |-> Lit("/usr/bin/python3")]

\* a _get_vault_secrets that writes the file under every profile
SecretsInFile_AnyProfile == TRUE

\* _get_vault_secrets, lines 227-234: a file unless the profile is testing
SecretsInFile == profile # "testing"

\* _create_playbook_vars, lines 319-336; secrets is what _get_vault_secrets
\* returned
ComputedVars(pb, secrets) ==
    [artifacts |-> PathIn("artifactsdir", pb),
     artifacts_root |-> Lit("artifactsdir"),
     client_taskdir |-> Lit("cfg.client_taskdir"),
     heartbeat_file |-> PathIn("artifactsdir/checkb/heartbeat.log", 0),
     local |-> Lit(IF run_remotely THEN "False" ELSE "True"),
     minion_repos |-> Lit("cfg.minion_repos"),
     minion_repos_ignore_errors |-> Lit("cfg.minion_repos_ignore_errors"),
     taskdir |-> Lit("taskdir"),
     checkb_arch |-> Lit("arch"),
     checkb_item |-> Lit("item"),
     checkb_item_type |-> Lit("type"),
     checkb_secrets_file |-> secrets,
     checkb_supported_arches |-> Lit("cfg.supported_arches"),
     checkb_supported_binary_arches |-> Lit("binary(cfg.supported_arches)"),
     test_playbook |-> PathIn("", pb)]

\* _create_playbook_vars, lines 298-338
PlaybookVarsOf(pb, declared, secrets) ==
    Update(Update(DefaultVars, LoadPlaybookVars(declared)),
           ComputedVars(pb, secrets))

(***************************************************************************)
(* What a playbook may declare in the vars of its first play: any subset   *)
(* of these names, each with a value that is no default and no computed    *)
(* value.  One name is accepted, one is a default that is not accepted,    *)
(* one is a computed variable and one is unknown to the Executor.          *)
(***************************************************************************)
DeclarableVars == {"checkb_generic_task", "become_root", "checkb_secrets_file",
                   "unaccepted"}
Declarations ==
    {[var \in D |-> Lit("declared")] : D \in SUBSET DeclarableVars}

(***************************************************************************)
(* A direct call of _create_playbook_vars, as the tests make it, for one   *)
(* of the playbooks of the task directory.  Under a non-testing profile    *)
(* mkstemp creates a file whose name is not the name of an existing file;  *)
(* under the testing profile the secrets themselves are returned (none,    *)
(* Vault being disabled by default).                                       *)
(***************************************************************************)
CallCreatePlaybookVars ==
    /\ pc = "start"
    /\ Len(calls) < MaxCalls
    /\ \E pb \in 1..nPlaybooks, declared \in Declarations :
          \/ /\ SecretsInFile
             /\ \E n \in TmpNames \ tmpFiles :
                   /\ tmpFiles' = tmpFiles \cup {n}
                   /\ calls' = Append(calls,
                          [playbook |-> pb, declared |-> declared,
                           loaded |-> LoadPlaybookVars(declared),
                           result |-> PlaybookVarsOf(pb, declared, TmpFile(n))])
          \/ /\ ~SecretsInFile
             /\ UNCHANGED tmpFiles
             /\ calls' = Append(calls,
                    [playbook |-> pb, declared |-> declared,
                     loaded |-> LoadPlaybookVars(declared),
                     result |-> PlaybookVarsOf(pb, declared, Lit("{}"))])
    /\ UNCHANGED <<cfgVars, selfVars, execVars, spawnVars, runVars, worldVars,
                   obsVars>>

(***************************************************************************)
(* The specification of the variable computation alone: an Executor in the *)
(* default configuration on which _create_playbook_vars is called.         *)
(***************************************************************************)
InitVars ==
    /\ Init
    /\ nPlaybooks = MaxPlaybooks
    /\ spawn_vm_retries = DefaultSpawnVmRetries
    /\ override = "none"
    /\ ~no_destroy
    /\ sigint = InterpreterHandlers.sigint

NextVars == CallCreatePlaybookVars

SpecVars == InitVars /\ [][NextVars]_vars

(***************************************************************************)
(* Vocabulary of the properties.                                           *)
(***************************************************************************)
Returned == pc = "done"
Raised == pc = "raised"
Finished == Returned \/ Raised
Found == 1..nPlaybooks
InFailed(k) == \E i \in 1..Len(failed) : failed[i] = k
IsLocalMode == override = "local" \/ (override = "none" /\ runtask_mode = "local")
IsSshMode == override = "ssh"
IsDisposableMode == override = "libvirt" \/ (override = "none" /\ runtask_mode = "libvirt")
\* the current _spawn_vm call has ended and _run_playbook has not started
SpawnVmEnded == idx \in spawned /\ idx \notin ran /\ pc \in {"run_playbook", "except"}
SpawnVmReturned == idx \in spawned /\ idx \notin ran /\ pc = "run_playbook"
SpawnVmRaised == idx \in spawned /\ idx \notin ran /\ pc = "except"

(***************************************************************************)
(* C1 - failure isolation.  When execute has ended and the processing of   *)
(* a playbook of a directory with two or more playbooks raised a syntax    *)
(* error, a not-a-generic-task error, a provisioning exhaustion, an        *)
(* execution error or a missing-results error, that playbook is in failed, *)
(* every later playbook was processed (and reported if it ended well), and *)
(* execute returned False.  Stated for the runs in which every playbook    *)
(* ended well or in one of these errors, with the default retry bound and  *)
(* without the request to keep the VM.                                     *)
(***************************************************************************)
IsolatedErrors == {"syntax", "notgeneric", "minion", "exec", "missing"}

C1_FailureIsolation ==
    (/\ Finished /\ nPlaybooks >= 2 /\ ~no_destroy
     /\ spawn_vm_retries = DefaultSpawnVmRetries
     /\ \A j \in Found : ended[j] \in IsolatedErrors \cup {"ok", "none"}) =>
        \A k \in Found :
            ended[k] \in IsolatedErrors =>
                /\ InFailed(k)
                /\ \A j \in (k + 1)..nPlaybooks :
                       /\ j \in syntaxChecked
                       /\ (ended[j] = "ok" => j \in ran /\ j \in reported)
                /\ result = "False"

(***************************************************************************)
(* C2 - an interrupt aborts the run.  When execute has ended and           *)
(* _run_playbook raised CheckbInterruptError for playbook k, k is in       *)
(* failed, no later playbook was syntax-checked, provisioned, run or       *)
(* reported, and execute returned False.  Stated for the default retry     *)
(* bound.                                                                  *)
(***************************************************************************)
C2_InterruptAborts ==
    (Finished /\ spawn_vm_retries = DefaultSpawnVmRetries) =>
        \A k \in Found :
            ended[k] = "interrupt" =>
                /\ InFailed(k)
                /\ \A j \in (k + 1)..nPlaybooks :
                       /\ j \notin syntaxChecked
                       /\ j \notin spawned
                       /\ j \notin ran
                       /\ j \notin reported
                /\ result = "False"

(***************************************************************************)
(* C3 - aggregate outcome.  Whenever execute returns, it returns True if   *)
(* and only if no playbook's processing ended in an error (an interrupt    *)
(* included).  Stated for the default retry bound.                         *)
(***************************************************************************)
C3_AggregateOutcome ==
    (Returned /\ spawn_vm_retries = DefaultSpawnVmRetries) =>
        (result = "True" <=> \A k \in Found : ended[k] \in {"ok", "none"})

(***************************************************************************)
(* C4 - no playbooks.  With no tests*.yml in the task directory execute    *)
(* raises a CheckbError and performs no per-playbook step at all: it is    *)
(* either not started or has raised, and nothing was syntax-checked,       *)
(* computed, provisioned, run or reported.                                 *)
(***************************************************************************)
C4_NoPlaybooksRaises ==
    nPlaybooks = 0 =>
        /\ pc \in {"start", "raised"}
        /\ pc = "raised" => (IsCheckbError(pending) /\ result = "raised")
        /\ syntaxChecked = {} /\ varsComputed = {} /\ spawned = {}
        /\ prepareCalls = 0 /\ ran = {} /\ reported = {} /\ sentinel = {}

C4_Witness == nPlaybooks = 0 /\ Raised

(***************************************************************************)
(* C5 - retry success.  When a _spawn_vm call has ended whose provisioner  *)
(* fails the first N-1 attempts and succeeds at the N-th, 1 <= N <=        *)
(* spawn_vm_retries, the call made exactly N prepare attempts, raised      *)
(* nothing and returned the address the N-th attempt set on the handle.    *)
(***************************************************************************)
C5_RetrySuccess ==
    \A N \in 1..spawn_vm_retries :
        (SpawnVmEnded /\ plan = [fails |-> N - 1, last |-> "ok"]) =>
            /\ SpawnVmReturned
            /\ attempts = N
            /\ task_vm = [ipaddr |-> VmAddr(N)]
            /\ local_ipaddr = VmAddr(N)

(***************************************************************************)
(* C6 - retry exhaustion.  When a _spawn_vm call has ended whose           *)
(* provisioner fails every attempt, the call made exactly spawn_vm_retries *)
(* prepare attempts and raised CheckbMinionError; it did not return.       *)
(* Stated for a retry bound of at least 1.                                 *)
(***************************************************************************)
C6_RetryExhaustion ==
    (/\ SpawnVmEnded /\ spawn_vm_retries >= 1
     /\ plan = [fails |-> spawn_vm_retries, last |-> "none"]) =>
        /\ attempts = spawn_vm_retries
        /\ SpawnVmRaised
        /\ pending = "minion"

(***************************************************************************)
(* C7 - as claimed: exhausting the retry budget is fatal for the whole     *)
(* run.  With retry bound 3, once a playbook ended in provisioning         *)
(* exhaustion, exactly 3 prepare attempts were made over the whole execute *)
(* call and no later playbook is provisioned or run.                       *)
(***************************************************************************)
C7_ExhaustionFatalForRun ==
    (spawn_vm_retries = DefaultSpawnVmRetries
        /\ \E k \in Found : ended[k] = "minion") =>
        /\ prepareCalls = DefaultSpawnVmRetries
        /\ \A k \in Found : ended[k] = "minion" =>
               \A j \in (k + 1)..nPlaybooks : j \notin spawned /\ j \notin ran

(***************************************************************************)
(* C7 - as amended: exhausting the retry budget fails the current playbook *)
(* only.  With retry bound 3, a playbook that ended in provisioning        *)
(* exhaustion had exactly 3 prepare attempts, is never run and is recorded *)
(* as failed once the except clause has run; the budget is per playbook,   *)
(* so at most 3 attempts are made for each playbook that is provisioned.   *)
(***************************************************************************)
C7_ExhaustionFailsPlaybook ==
    spawn_vm_retries = DefaultSpawnVmRetries =>
        /\ attempts <= DefaultSpawnVmRetries
        /\ prepareCalls <= DefaultSpawnVmRetries * Cardinality(spawned)
        /\ \A k \in Found : ended[k] = "minion" =>
               /\ k \notin ran
               /\ k \notin reported
               /\ (k = idx /\ pc \in {"except", "finally_secrets", "finally_vm"})
                      => attempts = DefaultSpawnVmRetries
               /\ (k < idx \/ pc \notin {"except"}) => InFailed(k)
               /\ Returned => result = "False"

\* a later playbook is being provisioned after an earlier one exhausted its budget
C7_Witness ==
    /\ spawn_vm_retries = DefaultSpawnVmRetries
    /\ idx = 2 /\ ended[1] = "minion" /\ pc = "prepare" /\ attempts = 1
    /\ prepareCalls = DefaultSpawnVmRetries + 1

(***************************************************************************)
(* C8 - address invariant.  _run_playbook is entered only with an address  *)
(* that is not None; in disposable mode only after a prepare attempt for   *)
(* this playbook succeeded, so that the handle carries that address.       *)
(***************************************************************************)
C8_AddressResolved ==
    pc = "run_playbook" =>
        /\ local_ipaddr # None
        /\ IsDisposableMode =>
               (idx \in spawned /\ attempts >= 1 /\ task_vm = [ipaddr |-> local_ipaddr])

(***************************************************************************)
(* C9 - no provisioning outside disposable mode.  In local and in ssh mode *)
(* _spawn_vm is never entered, prepare and teardown are never called, no   *)
(* handle is ever held, and every _run_playbook call gets the address      *)
(* resolved at construction: 127.0.0.1, or the supplied machine.           *)
(***************************************************************************)
C9_NoProvisioningOutsideDisposable ==
    (IsLocalMode \/ IsSshMode) =>
        /\ spawned = {} /\ prepareCalls = 0 /\ teardownCalls = 0
        /\ task_vm = None /\ ~instExists
        /\ pc \in {"spawn_vm", "spawn_loop", "prepare", "wait_for_port",
                   "spawn_except"} => FALSE
        /\ pc \in {"run_playbook", "runner", "failsafe", "run_finally"} =>
               local_ipaddr = (IF IsSshMode THEN MachineAddr(machine) ELSE Loopback)

\* an ssh run that went through two playbooks, one failing and one reported
C9_Witness ==
    /\ IsSshMode /\ Returned
    /\ ran = {1, 2} /\ ended[1] = "exec" /\ ended[2] = "ok"

(***************************************************************************)
(* C10 - target resolution.  After construction: an override beats the     *)
(* configured mode; local gives (False, 127.0.0.1), ssh gives (True, the   *)
(* supplied machine), libvirt gives (True, None); without an override the  *)
(* configured mode chooses between the local and the libvirt result.  The  *)
(* provisioner has not been touched when execute starts.                   *)
(***************************************************************************)
C10_TargetResolution ==
    /\ override = "local" => (~run_remotely /\ ipaddr = Loopback)
    /\ override = "ssh" => (run_remotely /\ ipaddr = MachineAddr(machine))
    /\ override = "libvirt" => (run_remotely /\ ipaddr = None)
    /\ (override = "none" /\ runtask_mode = "local") =>
           (~run_remotely /\ ipaddr = Loopback)
    /\ (override = "none" /\ runtask_mode = "libvirt") =>
           (run_remotely /\ ipaddr = None)
    /\ pc = "start" =>
           (task_vm = None /\ spawned = {} /\ prepareCalls = 0 /\ ~instExists)

\* the override contradicts the configured mode, and wins
C10_Witness ==
    /\ pc = "start" /\ runtask_mode = "libvirt" /\ override = "local"
    /\ ipaddr = Loopback /\ ~run_remotely

(***************************************************************************)
(* Vocabulary of the _run_playbook properties.                             *)
(***************************************************************************)
InRunPlaybookTry == pc \in {"runner", "failsafe", "run_finally"}
\* _run_playbook was called for the current playbook and has exited
RunPlaybookExited == idx \in ran /\ pc \in {"report", "except"}
HandlersNow == [sigint |-> sigint, sigterm |-> sigterm]

(***************************************************************************)
(* C11 - signal-handler restoration.  Whatever handlers were installed     *)
(* for SIGINT and SIGTERM when _run_playbook was called, the same handlers *)
(* are installed once it has exited, whether it returned, raised the       *)
(* execution error or raised the interrupt.                                *)
(***************************************************************************)
C11_HandlersRestored ==
    (RunPlaybookExited /\ runRes \in {"return", "exec", "interrupt"}) =>
        HandlersNow = handlersBefore

(***************************************************************************)
(* C12 - the Executor's interrupt handler is scoped to the runner.  While  *)
(* the runner or the failsafe pass executes, the handler is installed for  *)
(* both signals; in every state of execute outside the try statement of    *)
(* _run_playbook it is installed for neither, and once _run_playbook has   *)
(* left that statement, on whichever path, both handlers are SIG_DFL.      *)
(***************************************************************************)
C12_HandlerScoped ==
    /\ pc \in {"runner", "failsafe"} =>
           (sigint = "handler" /\ sigterm = "handler")
    /\ ~InRunPlaybookTry => (sigint # "handler" /\ sigterm # "handler")
    /\ (RunPlaybookExited /\ runRes # "none") =>
           (sigint = "SIG_DFL" /\ sigterm = "SIG_DFL")

\* the interrupt exit with a failsafe pass that failed, back in execute
C12_Witness ==
    /\ pc = "except" /\ runRes = "interrupt" /\ failsafeRes = "exec"
    /\ handlersBefore = InterpreterHandlers
    /\ sigint = "SIG_DFL" /\ sigterm = "SIG_DFL"

(***************************************************************************)
(* C13 - failsafe pass.  The failsafe pass is entered only after the one   *)
(* runner invocation was interrupted.  Once it is over, exactly two        *)
(* invocations were made, the playbook command and the same command with   *)
(* the failsafe tag; whether the failsafe pass succeeded, exited non-zero  *)
(* or was interrupted, _run_playbook raises CheckbInterruptError to        *)
(* execute.  Without an interrupt there is no failsafe pass.               *)
(***************************************************************************)
C13_FailsafeOnce ==
    /\ runnerCalls = Len(invoked)
    /\ pc = "failsafe" => (runRes = "interrupt" /\ invoked = <<Cmd>>)
    /\ (runRes = "interrupt" /\ pc # "failsafe") =>
           /\ runnerCalls = 2
           /\ invoked = <<Cmd, [Cmd EXCEPT !.tags = "failsafe"]>>
           /\ failsafeRes \in {"return", "exec", "interrupt"}
           /\ pc = "except" => pending = "interrupt"
           /\ pc # "run_finally" => ended[idx] = "interrupt"
    /\ runRes # "interrupt" => (failsafeRes = "none" /\ runnerCalls <= 1)

\* the failsafe pass was itself interrupted; the first interrupt is raised
C13_Witness ==
    /\ pc = "except" /\ runRes = "interrupt" /\ failsafeRes = "interrupt"
    /\ pending = "interrupt" /\ runnerCalls = 2

(***************************************************************************)
(* C14 - missing results artifact.  When _run_playbook returned normally   *)
(* for a playbook and results.yml is absent, _report_results raises        *)
(* CheckbDirectiveError: the reporter is not called for that playbook, no  *)
(* reported_ok file is created, the playbook is recorded as failed, and    *)
(* when execute has ended the next playbook, if any, was processed.        *)
(* Stated for the default retry bound, without the request to keep the VM. *)
(***************************************************************************)
C14_MissingResults ==
    (~no_destroy /\ spawn_vm_retries = DefaultSpawnVmRetries) =>
        \A k \in Found :
            ended[k] = "missing" =>
                /\ k \in ran
                /\ k \notin reported
                /\ k \notin sentinel
                /\ (k < idx \/ pc # "except") => InFailed(k)
                /\ (Finished /\ k < nPlaybooks) => (k + 1) \in syntaxChecked

(***************************************************************************)
(* Vocabulary of the cleanup properties.                                   *)
(***************************************************************************)
\* _spawn_vm returned a booted VM for playbook k
VmSpawnedFor(k) == k \in spawned /\ k \in ran /\ spawn_vm_retries >= 1
Untouched(j) ==
    /\ j \notin syntaxChecked /\ j \notin varsComputed /\ j \notin spawned
    /\ j \notin ran /\ j \notin reported

(***************************************************************************)
(* C15 - as claimed: with no_destroy set, once a VM was spawned for a      *)
(* playbook, teardown was not invoked at any point of the run and no later *)
(* playbook is syntax-checked, provisioned, run or reported.               *)
(***************************************************************************)
C15_NoDestroyNeverTearsDown ==
    no_destroy =>
        \A k \in Found :
            VmSpawnedFor(k) =>
                /\ teardownCalls = 0
                /\ \A j \in (k + 1)..nPlaybooks : Untouched(j)

(***************************************************************************)
(* C15 - as amended: with no_destroy set, once a VM was spawned for a      *)
(* playbook, that VM is never torn down: teardown was invoked only by      *)
(* _spawn_vm, once after each boot attempt that failed before the          *)
(* successful one, the instance exists and the Executor holds its handle.  *)
(* The loop stops at that playbook: no later playbook is syntax-checked,   *)
(* provisioned, run or reported, and execute returns instead of raising.   *)
(***************************************************************************)
C15_NoDestroyKeepsSpawnedVm ==
    no_destroy =>
        \A k \in Found :
            VmSpawnedFor(k) =>
                /\ k = idx
                /\ teardownCalls = attempts - 1
                /\ instExists
                /\ task_vm = [ipaddr |-> VmAddr(attempts)]
                /\ \A j \in (k + 1)..nPlaybooks : Untouched(j)
                /\ ~Raised

\* the second boot attempt gave the VM that is kept; a playbook remains
C15_Witness ==
    /\ no_destroy /\ Returned /\ nPlaybooks = 2 /\ idx = 1 /\ VmSpawnedFor(1)
    /\ attempts = 2 /\ teardownCalls = 1 /\ instExists

(***************************************************************************)
(* C16 - cleanup failures never propagate.  execute raises only because    *)
(* there is no playbook or because the try block of a playbook raised an   *)
(* exception that is no CheckbError; the CheckbRemoteError of a failing    *)
(* teardown never leaves execute, and a failed deletion of the secrets     *)
(* file is followed by the VM cleanup.  Stated for the default retry bound,*)
(* without the request to keep the VM.                                     *)
(***************************************************************************)
C16_CleanupNeverPropagates ==
    (~no_destroy /\ spawn_vm_retries = DefaultSpawnVmRetries) =>
        /\ Raised => (pending = "noplaybooks" \/ ~IsCheckbError(pending))
        /\ (removeCalls = 1 /\ secretsFile) =>
               pc \in {"finally_vm", "loop", "after_loop", "done", "raised"}

(***************************************************************************)
(* C17 - secrets cleanup.  Under a non-testing profile, a playbook whose   *)
(* variables were computed has no deletion of its secrets file attempted   *)
(* while its try block and except clauses run, and exactly one once the    *)
(* first statement of the finally clause is over, which is before the VM   *)
(* cleanup and before the loop moves on, whatever the playbook's outcome.  *)
(* Under the testing profile, and for a playbook whose variables were not  *)
(* computed, no deletion is attempted.                                     *)
(***************************************************************************)
AfterSecretsCleanup == pc \in {"finally_vm", "loop", "after_loop", "done", "raised"}
\* the playbook that playbook_vars belongs to: the for statement has
\* advanced when the loop is at its head or has run to its end
VarsOwner == IF pc = "loop" \/ idx > nPlaybooks THEN idx - 1 ELSE idx

C17_SecretsCleanup ==
    /\ profile = "testing" => removeCalls = 0
    /\ playbook_vars = None => removeCalls = 0
    /\ (profile # "testing" /\ playbook_vars # None /\ VarsOwner = idx) =>
           removeCalls = (IF AfterSecretsCleanup THEN 1 ELSE 0)
    /\ (profile # "testing" /\ playbook_vars # None /\ pc = "loop") =>
           removeCalls = 1
    /\ playbook_vars # None =>
           /\ VarsOwner \in varsComputed
           /\ AfterSecretsCleanup => ended[VarsOwner] # "none"
           /\ VarsOwner + 1 \notin syntaxChecked

\* an interrupted playbook: the deletion was attempted before the break
C17_Witness ==
    /\ profile = "production" /\ pc = "after_loop"
    /\ \E k \in Found : k = idx /\ ended[k] = "interrupt"
    /\ playbook_vars # None /\ removeCalls = 1

(***************************************************************************)
(* C18 - a playbook rejected before execution.  A playbook whose syntax    *)
(* check failed or which is not marked as a generic task is never handed   *)
(* to _spawn_vm, _run_playbook or _report_results and is recorded as       *)
(* failed; when execute has ended, every later playbook was processed and  *)
(* execute returned False.  Stated for the runs in which every playbook    *)
(* was rejected or ended well, with the default retry bound and without    *)
(* the request to keep the VM.                                             *)
(***************************************************************************)
Rejections == {"syntax", "notgeneric"}

C18_RejectedPlaybook ==
    (/\ ~no_destroy /\ spawn_vm_retries = DefaultSpawnVmRetries
     /\ \A j \in Found : ended[j] \in Rejections \cup {"ok", "none"}) =>
        \A k \in Found :
            ended[k] \in Rejections =>
                /\ k \notin spawned /\ k \notin ran /\ k \notin reported
                /\ (k < idx \/ pc # "except") => InFailed(k)
                /\ Finished =>
                       /\ result = "False"
                       /\ \A j \in (k + 1)..nPlaybooks : j \in syntaxChecked

(***************************************************************************)
(* C19 - reporting.  The reporter is called at most once for a playbook,   *)
(* and only when _run_playbook returned normally for it and its            *)
(* results.yml exists: a playbook handed to the reporter was run, and its  *)
(* try block ended well or with an error of the reporter or of the         *)
(* creation of the reported_ok file.  A playbook has a reported_ok file    *)
(* only if the reporter was called for it and returned without error.      *)
(***************************************************************************)
C19_ReportOnce ==
    /\ reporterCalls <= 1
    /\ reporterCalls = 1 =>
           /\ VarsOwner \in reported
           /\ runRes = "return" /\ runnerCalls = 1 /\ resultsFile
    /\ \A k \in reported :
           /\ k \in ran
           /\ ended[k] \in {"ok", "directive", "other"}
           /\ (k = idx /\ VarsOwner = idx) => reporterCalls = 1
    /\ \A k \in sentinel : k \in reported /\ ended[k] = "ok"
    /\ \A k \in Found : ended[k] = "ok" => k \in sentinel

\* two playbooks reported, the reporter failed for the second
C19_Witness ==
    /\ Returned /\ reported = {1, 2} /\ sentinel = {1}
    /\ ended[2] = "directive"

(***************************************************************************)
(* C20 - handle discard.  When the cleanup of a playbook is over and the   *)
(* loop is back at its head, the Executor holds no VM handle; hence the    *)
(* cleanup of a playbook for which _spawn_vm was not entered finds no      *)
(* handle and invokes no teardown.                                         *)
(***************************************************************************)
C20_HandleDiscarded ==
    /\ pc = "loop" => ~HoldsVm
    /\ (pc \in {"finally_secrets", "finally_vm"} /\ idx \notin spawned) =>
           ~HoldsVm

(***************************************************************************)
(* Vocabulary of the _spawn_vm properties.  prepare sets the address of    *)
(* the handle only when it succeeds, so a handle carrying the address of   *)
(* the current attempt tells that the attempt got as far as wait_for_port. *)
(***************************************************************************)
InSpawnVm == pc \in {"spawn_loop", "prepare", "wait_for_port", "spawn_except"}
BootedThisAttempt == attempts >= 1 /\ task_vm = [ipaddr |-> VmAddr(attempts)]
\* wait_for_port has just raised its timeout
PortTimedOut == pc = "spawn_except" /\ BootedThisAttempt
\* the loop of _spawn_vm goes on after a timeout of wait_for_port
RetryAfterPortTimeout == pc \in {"spawn_loop", "prepare"} /\ BootedThisAttempt

CallIds == 1..Len(calls)
SameInputs(i, j) ==
    /\ calls[i].playbook = calls[j].playbook
    /\ calls[i].declared = calls[j].declared
\* a mapping without one of its entries
Without(m, var) == [k \in (DOMAIN m) \ {var} |-> m[k]]

C23_TrueMeansAllReported ==
    (Returned /\ result = "True" /\ spawn_vm_retries = DefaultSpawnVmRetries) =>
        \A k \in Found : k \in ran /\ k \in reported /\ k \in sentinel

(***************************************************************************)
(* C24 - allow-list of playbook-declared variables.  For every call:       *)
(* _load_playbook_vars returned exactly the declared entries whose name is *)
(* in ACCEPTED_VARS, with their declared values, and these are in the      *)
(* result of _create_playbook_vars; every other declared name is dropped:  *)
(* if it is the name of a default or of a computed variable the result     *)
(* keeps the default or computed value, otherwise the result has no such   *)
(* entry.                                                                  *)
(***************************************************************************)
C24_AllowList ==
    \A i \in CallIds :
        LET declared == calls[i].declared
            loaded == calls[i].loaded
            vars_ == calls[i].result
        IN /\ DOMAIN loaded = (DOMAIN declared) \cap ACCEPTED_VARS
           /\ \A var \in DOMAIN loaded :
                  loaded[var] = declared[var] /\ vars_[var] = declared[var]
           /\ \A var \in (DOMAIN declared) \ ACCEPTED_VARS :
                  /\ var \in DOMAIN vars_ => vars_[var] # declared[var]
                  /\ var \in DOMAIN DefaultVars => vars_[var] = DefaultVars[var]
                  /\ var = "checkb_secrets_file" =>
                         vars_[var].kind = (IF profile = "testing" THEN "lit"
                                             ELSE "tmpfile")
                  /\ var = "unaccepted" => var \notin DOMAIN vars_

\* a playbook declaring an accepted name, a default, a computed name and an
\* unknown name
C24_Witness ==
    \E i \in CallIds :
        /\ DOMAIN calls[i].declared = DeclarableVars
        /\ DOMAIN calls[i].loaded = {"checkb_generic_task"}
        /\ calls[i].result.checkb_generic_task = Lit("declared")
        /\ calls[i].result.become_root = Lit("True")
        /\ "unaccepted" \notin DOMAIN calls[i].result

(***************************************************************************)
(* C25 - teardown between retries.  Every step of _spawn_vm's except       *)
(* clause taken with attempts remaining invokes teardown exactly once; the *)
(* loop is resumed only when that teardown has returned, the instance      *)
(* being gone, and otherwise teardown's CheckbRemoteError ends _spawn_vm.  *)
(* With no attempt remaining teardown is not invoked.  A prepare attempt   *)
(* starts only from the head of the loop, the budget going down by exactly *)
(* one, and after an earlier attempt only with the instance removed.       *)
(***************************************************************************)
C25_TeardownBetweenRetries ==
    [][/\ (pc = "spawn_except" /\ retries > 0) =>
              /\ teardownCalls' = teardownCalls + 1
              /\ pc' \in {"spawn_loop", "except"}
              /\ pc' = "spawn_loop" => (~instExists' /\ retries' = retries)
              /\ pc' = "except" => pending' = "remote"
       /\ (pc = "spawn_except" /\ retries <= 0) =>
              (teardownCalls' = teardownCalls /\ pending' = "minion")
       /\ (pc' = "prepare" /\ pc # "prepare") =>
              /\ pc = "spawn_loop"
              /\ retries' = retries - 1
              /\ retries' = spawn_vm_retries - attempts - 1
              /\ attempts >= 1 => ~instExists
      ]_vars

\* the third attempt is about to start, two teardowns were made
C25_Witness ==
    /\ spawn_vm_retries = DefaultSpawnVmRetries /\ idx = 1 /\ pc = "prepare"
    /\ attempts = 2 /\ teardownCalls = 2 /\ retries = 0 /\ ~instExists

(***************************************************************************)
(* C26 - ordinary runner failure.  When ansible-playbook exits non-zero    *)
(* and no signal arrived, the runner was invoked exactly once, with the    *)
(* playbook command, and there is no failsafe pass; _run_playbook raises   *)
(* a CheckbError that is no CheckbInterruptError; the reporter is not      *)
(* called for the playbook, no reported_ok file is written, and the except *)
(* clause of execute records the playbook in the failed list.              *)
(***************************************************************************)
C26_RunnerFailure ==
    /\ runRes = "exec" =>
           /\ runnerCalls = 1 /\ invoked = <<Cmd>> /\ failsafeRes = "none"
           /\ reporterCalls = 0
           /\ pc \notin {"failsafe", "report"}
    /\ (runRes = "exec" /\ pc = "except") =>
           /\ pending = "exec"
           /\ IsCheckbError(pending) /\ ~IsInterruptError(pending)
    /\ (runRes = "exec" /\ pc \in {"finally_secrets", "finally_vm"}) =>
           (ended[idx] = "exec" /\ pending = "none" /\ ~brk)
    /\ \A k \in Found :
           (k \in ran /\ ended[k] = "exec") =>
               /\ k \notin reported /\ k \notin sentinel
               /\ (k # idx \/ pc # "except") => InFailed(k)

\* the first playbook's runner failed; execute went on and returned False
C26_Witness ==
    /\ Returned /\ result = "False" /\ nPlaybooks = 2
    /\ ended[1] = "exec" /\ ended[2] = "ok"
    /\ failed = <<1>> /\ reported = {2}

(***************************************************************************)
(* C27 - no VM leak.  In disposable mode without the request to keep the   *)
(* VM, when execute has returned, True or False, no instance created       *)
(* during the run exists any more.                                         *)
(***************************************************************************)
C27_NoVmLeak ==
    (Returned /\ IsDisposableMode /\ ~no_destroy) => ~instExists

\* the first playbook used up its attempts and left a partly created VM
\* behind, the second one ran; both VMs were torn down
C27_Witness ==
    /\ Returned /\ result = "False" /\ IsDisposableMode /\ ~no_destroy
    /\ nPlaybooks = 2 /\ ended[1] = "minion" /\ ended[2] = "ok"
    /\ prepareCalls >= 2 /\ teardownCalls = prepareCalls /\ ~instExists

(***************************************************************************)
(* C28 - no error is silently dropped.  When execute has ended and the     *)
(* processing of some playbook raised an exception that is no CheckbError, *)
(* execute has raised; and whenever execute has returned True, no          *)
(* playbook's processing raised an exception of any kind.  Stated for the  *)
(* default retry bound.                                                    *)
(***************************************************************************)
RaisedInProcessing(k) == ended[k] \notin {"none", "ok"}

C28_NoErrorDropped ==
    spawn_vm_retries = DefaultSpawnVmRetries =>
        /\ Finished =>
               \A k \in Found :
                   (RaisedInProcessing(k) /\ ~IsCheckbError(ended[k])) => Raised
        /\ (Returned /\ result = "True") =>
               \A k \in Found : ~RaisedInProcessing(k)

(***************************************************************************)
(* C29 - at most one disposable VM at any time.  Whenever prepare is about *)
(* to be invoked, for a retry within one playbook or for a later playbook  *)
(* of the run, no instance created earlier in the run exists.              *)
(***************************************************************************)
C29_OneVmAtATime ==
    pc = "prepare" => ~instExists

\* the second playbook's VM failed to boot once and is being retried; the
\* first playbook's VM and the failed one were torn down
C29_Witness ==
    /\ IsDisposableMode /\ pc = "prepare" /\ idx = 2 /\ 1 \in spawned
    /\ attempts = 1 /\ prepareCalls >= 2 /\ teardownCalls >= 2 /\ ~instExists

(***************************************************************************)
(* C30 - termination.  When every collaborator call returns or raises,     *)
(* execute eventually returns or raises.  The loop takes up a playbook     *)
(* only if nothing was done for it before, it moves through the playbooks  *)
(* in order, _spawn_vm is entered at most once for a playbook, and a       *)
(* _spawn_vm call makes at most spawn_vm_retries provisioning attempts.    *)
(***************************************************************************)
C30_Termination ==
    /\ <>Finished
    /\ [](attempts <= spawn_vm_retries)
    /\ [](pc = "spawn_vm" => idx \notin spawned)
    /\ [][/\ idx' \in {idx, idx + 1}
          /\ (pc = "loop" /\ pc' = "syntax") =>
                 /\ idx \notin (syntaxChecked \cup varsComputed \cup spawned
                                   \cup ran \cup reported)
                 /\ ended[idx] = "none"
          /\ Finished => UNCHANGED vars
         ]_vars

\* execute has returned after every playbook used up all its provisioning
\* attempts
C30_Witness ==
    /\ Returned /\ nPlaybooks = MaxPlaybooks /\ idx > nPlaybooks
    /\ spawn_vm_retries = MaxRetries
    /\ prepareCalls = MaxPlaybooks * MaxRetries
    /\ syntaxChecked = Found /\ \A k \in Found : ended[k] = "minion"
====
